---- MODULE Spec2Model ----
(* Model of the article interaction endpoints of authors/apps/articles:     *)
(* the generic like/dislike ledger (ChoiceView), the favorite counters,     *)
(* article update and publish, bookmarks and ratings.                       *)
EXTENDS Integers, FiniteSets, Sequences, TLC

(***************************************************************************)
(* Bounds                                                                  *)
(***************************************************************************)
NumUsers == 2
NumArticles == 2
MaxId == 2
NumReaders == 3
MaxCount == 3

(***************************************************************************)
(* Program constants                                                       *)
(***************************************************************************)
LIKE == 1
DISLIKE == 0 - 1
MaxScore == 5
HTTP_200_OK == 200
HTTP_201_CREATED == 201
HTTP_204_NO_CONTENT == 204
HTTP_400_BAD_REQUEST == 400
HTTP_401_UNAUTHORIZED == 401
HTTP_404_NOT_FOUND == 404
HTTP_500_INTERNAL_SERVER_ERROR == 500

Users == 1..NumUsers
\* the signed-in users of the favorite endpoints: the authors and other readers
Readers == 1..NumReaders
AnonymousUser == 0
ArticleIds == 1..NumArticles
\* the two workers whose submissions overlap
Procs == {1, 2}
VoteTypes == {LIKE, DISLIKE}
ArticleContentType == "article"

\* slug of the article with primary key a; NoSuchSlug matches no article
SlugOf(a) == <<"slug", a>>
NoSuchSlug == <<"slug", 0>>
Slugs == {SlugOf(a) : a \in ArticleIds} \cup {NoSuchSlug}
AuthorOf(a) == ((a - 1) % NumUsers) + 1

VARIABLES
    rows,       \* the LikeDislike table: records id, content_type, object_id, user, vote
    nextId,     \* next primary key of the LikeDislike table
    articles,   \* the Article table: id -> slug, author_id, favorites_count, favorited,
                \* is_published
    favorites,  \* the profile favorites relation: pairs <<user, article id>>
    bookmarks,  \* the Bookmark table: records id, user, slug
    ratings,    \* the Rating table: records id, author, article, score
    nextPk,     \* next primary keys of the Bookmark and Rating tables
    request,    \* the request handled last
    response,   \* the response returned last
    before,     \* the LikeDislike table as it was when the last request arrived
    procs       \* the requests in flight when submissions overlap

others == <<articles, favorites, bookmarks, ratings, nextPk>>
vars == <<rows, nextId, articles, favorites, bookmarks, ratings, nextPk,
          request, response, before, procs>>

NoRequest == [path |-> "none", user |-> AnonymousUser, slug |-> NoSuchSlug]
NoResponse == [status |-> 0, likes |-> 0, dislikes |-> 0]

(***************************************************************************)
(* Queries                                                                 *)
(***************************************************************************)
\* self.model.objects.get(slug=slug): the set of matching article ids
ArticleBySlug(slug) == {a \in DOMAIN articles : articles[a].slug = slug}

MatchingAnyTarget(rs, oid, user) ==
    {r \in rs : r.content_type = ArticleContentType /\ r.user = user}

\* LikeDislike.objects.get(content_type=..., object_id=obj.id, user=request.user)
Matching(rs, oid, user) ==
    {r \in rs : r.content_type = ArticleContentType /\ r.object_id = oid /\ r.user = user}

\* instance.votes: the generic relation of one article
Votes(rs, oid) == {r \in rs : r.content_type = ArticleContentType /\ r.object_id = oid}

get_likes_all_targets(rs, oid) == Cardinality({r \in rs : r.vote > 0})

\* instance.votes.likes().count()
get_likes(rs, oid) == Cardinality({r \in Votes(rs, oid) : r.vote > 0})

get_dislikes_unfiltered(rs, oid) == Cardinality(Votes(rs, oid))

\* instance.votes.dislikes().count()
get_dislikes(rs, oid) == Cardinality({r \in Votes(rs, oid) : r.vote < 0})

(***************************************************************************)
(* ChoiceView.post                                                         *)
(***************************************************************************)
ChoicePaths == {"like", "dislike"}

UrlVoteTypeAlwaysLike(path) == LIKE

\* urlpatterns: the vote_type bound to each endpoint
UrlVoteType(path) == IF path = "like" THEN LIKE ELSE DISLIKE

DEFAULT_PERMISSION_CLASSES == "IsAuthenticated"

ChoiceViewPermissionAllowAny == "AllowAny"

\* ChoiceView declares no permission_classes: the project default applies
ChoiceViewPermission == DEFAULT_PERMISSION_CLASSES

has_permission(perm, user) == perm = "AllowAny" \/ user # AnonymousUser

NewRow(id, oid, user, vote_type) ==
    [id |-> id, content_type |-> ArticleContentType,
     object_id |-> oid, user |-> user, vote |-> vote_type]

VoteAlwaysInsert(rs, oid, user, vote_type, id) ==
    rs \cup {NewRow(id, oid, user, vote_type)}

VoteNoDelete(rs, oid, user, vote_type, id) ==
    LET found == Matching(rs, oid, user) IN
    IF found = {}
    THEN rs \cup {NewRow(id, oid, user, vote_type)}
    ELSE LET likedislike == CHOOSE r \in found : TRUE IN
         (rs \ {likedislike}) \cup {[likedislike EXCEPT !.vote = vote_type]}

VoteDeleteThenInsert(rs, oid, user, vote_type, id) ==
    LET found == Matching(rs, oid, user) IN
    IF found = {}
    THEN rs \cup {NewRow(id, oid, user, vote_type)}
    ELSE LET likedislike == CHOOSE r \in found : TRUE IN
         IF likedislike.vote # vote_type
         THEN (rs \ {likedislike}) \cup {NewRow(id, oid, user, vote_type)}
         ELSE rs \ {likedislike}

\* the try/except of ChoiceView.post: switch, delete or create the row of (obj, user);
\* "likedislike.vote is not self.vote_type" compares two small integers, for
\* which identity and equality agree
Vote(rs, oid, user, vote_type, id) ==
    LET found == Matching(rs, oid, user) IN
    IF found = {}
    THEN rs \cup {NewRow(id, oid, user, vote_type)}
    ELSE LET likedislike == CHOOSE r \in found : TRUE IN
         IF likedislike.vote # vote_type
         THEN (rs \ {likedislike}) \cup {[likedislike EXCEPT !.vote = vote_type]}
         ELSE rs \ {likedislike}

Respond(path, user, slug, status, likes, dislikes) ==
    /\ request' = [path |-> path, user |-> user, slug |-> slug]
    /\ response' = [status |-> status, likes |-> likes, dislikes |-> dislikes]
    /\ before' = rows

Reject(path, user, slug, status) ==
    /\ Respond(path, user, slug, status, 0, 0)
    /\ UNCHANGED <<rows, nextId, others, procs>>

\* an uncaught Article.DoesNotExist, MultipleObjectsReturned or TypeError (the
\* anonymous user as a query value) ends the request as a server error
ChoicePost(user, slug, path) ==
    IF ~has_permission(ChoiceViewPermission, user)
    THEN Reject(path, user, slug, HTTP_401_UNAUTHORIZED)
    ELSE IF ArticleBySlug(slug) = {}
    THEN Reject(path, user, slug, HTTP_500_INTERNAL_SERVER_ERROR)
    ELSE LET obj == CHOOSE a \in ArticleBySlug(slug) : TRUE
             found == Matching(rows, obj, user)
         IN IF user = AnonymousUser \/ Cardinality(found) > 1
            THEN Reject(path, user, slug, HTTP_500_INTERNAL_SERVER_ERROR)
            ELSE /\ found = {} => nextId <= MaxId
                 /\ rows' = Vote(rows, obj, user, UrlVoteType(path), nextId)
                 /\ nextId' = IF found = {} THEN nextId + 1 ELSE nextId
                 /\ Respond(path, user, slug, HTTP_201_CREATED,
                            get_likes(rows', obj), get_dislikes(rows', obj))
                 /\ UNCHANGED <<others, procs>>

(***************************************************************************)
(* FavoriteArticle.create and UnFavoriteArticle.destroy                    *)
(***************************************************************************)
\* profile.has_favorited(article)
has_favorited(favs, user, a) == <<user, a>> \in favs

\* profile.favorite(article)
favorite(favs, user, a) == favs \cup {<<user, a>>}

\* profile.unfavorite(article)
unfavorite(favs, user, a) == favs \ {<<user, a>>}

CanNotFavoriteOwnAllowed(article, a, user, favs) == has_favorited(favs, user, a)

\* the two 400 checks of FavoriteArticle.create
CanNotFavorite(article, a, user, favs) ==
    article.author_id = user \/ has_favorited(favs, user, a)

\* article.favorited = True; article.favorites_count += 1
CountFavorite(article) ==
    [article EXCEPT !.favorited = TRUE,
                    !.favorites_count = article.favorites_count + 1]

CountUnfavoriteToZero(article) ==
    [article EXCEPT !.favorites_count = 0, !.favorited = FALSE]

CountUnfavoriteKeepsFlag(article) ==
    IF article.favorites_count > 0
    THEN [article EXCEPT !.favorites_count = article.favorites_count - 1]
    ELSE article

CountUnfavoriteUnguarded(article) ==
    [article EXCEPT
       !.favorites_count = article.favorites_count - 1,
       !.favorited = IF article.favorites_count - 1 = 0
                     THEN FALSE ELSE article.favorited]

\* the guarded decrement of UnFavoriteArticle.destroy
CountUnfavorite(article) ==
    IF article.favorites_count > 0
    THEN [article EXCEPT
            !.favorites_count = article.favorites_count - 1,
            !.favorited = IF article.favorites_count - 1 = 0
                          THEN FALSE ELSE article.favorited]
    ELSE article

FavoriteCreate(user, slug) ==
    IF user = AnonymousUser
    THEN Reject("favorite", user, slug, HTTP_401_UNAUTHORIZED)
    ELSE IF ArticleBySlug(slug) = {}
    THEN Reject("favorite", user, slug, HTTP_404_NOT_FOUND)
    ELSE LET a == CHOOSE x \in ArticleBySlug(slug) : TRUE
             article == articles[a]
         IN IF CanNotFavorite(article, a, user, favorites)
            THEN Reject("favorite", user, slug, HTTP_400_BAD_REQUEST)
            ELSE /\ article.favorites_count < MaxCount
                 /\ favorites' = favorite(favorites, user, a)
                 /\ articles' = [articles EXCEPT ![a] = CountFavorite(article)]
                 /\ Respond("favorite", user, slug, HTTP_201_CREATED,
                            get_likes(rows, a), get_dislikes(rows, a))
                 /\ UNCHANGED <<rows, nextId, bookmarks, ratings, nextPk, procs>>

UnFavoriteDestroy(user, slug) ==
    IF user = AnonymousUser
    THEN Reject("unfavorite", user, slug, HTTP_401_UNAUTHORIZED)
    ELSE IF ArticleBySlug(slug) = {}
    THEN Reject("unfavorite", user, slug, HTTP_404_NOT_FOUND)
    ELSE LET a == CHOOSE x \in ArticleBySlug(slug) : TRUE
             article == articles[a]
         IN IF ~has_favorited(favorites, user, a)
            THEN Reject("unfavorite", user, slug, HTTP_400_BAD_REQUEST)
            ELSE /\ favorites' = unfavorite(favorites, user, a)
                 /\ articles' = [articles EXCEPT ![a] = CountUnfavorite(article)]
                 /\ Respond("unfavorite", user, slug, HTTP_204_NO_CONTENT,
                            get_likes(rows, a), get_dislikes(rows, a))
                 /\ UNCHANGED <<rows, nextId, bookmarks, ratings, nextPk, procs>>

(***************************************************************************)
(* ArticleRetrieveUpdate.update and PublishArticleUpdate.create            *)
(***************************************************************************)
\* the fields of ArticleSerializer.Meta.fields that the Article table of the
\* model holds
SerializerFields == {"favorited", "favorites_count", "is_published"}

read_only_fields_without_is_published == {"id", "slug", "author_id"}

read_only_fields == {"id", "slug", "author_id", "is_published"}

\* a partial update validates the keys sent and drops the read-only ones
validated_data(data) == (data.keys \cap SerializerFields) \ read_only_fields

\* ModelSerializer.update: every validated key is set on the instance
SerializerUpdate(article, data) ==
    LET keys == validated_data(data)
    IN [article EXCEPT
          !.favorited = IF "favorited" \in keys THEN data.favorited ELSE @,
          !.favorites_count = IF "favorites_count" \in keys
                              THEN data.favorites_count ELSE @,
          !.is_published = IF "is_published" \in keys THEN data.is_published ELSE @]

\* the bodies of an update request: any subset of the fields, with any value
UpdateData == [keys : SUBSET SerializerFields, favorited : BOOLEAN,
               favorites_count : 0..MaxCount, is_published : BOOLEAN]

ArticleUpdate(user, slug, data) ==
    IF user = AnonymousUser
    THEN Reject("update", user, slug, HTTP_401_UNAUTHORIZED)
    ELSE IF ArticleBySlug(slug) = {}
    THEN Reject("update", user, slug, HTTP_404_NOT_FOUND)
    ELSE LET a == CHOOSE x \in ArticleBySlug(slug) : TRUE
         IN /\ articles' = [articles EXCEPT ![a] = SerializerUpdate(articles[a], data)]
            /\ Respond("update", user, slug, HTTP_200_OK,
                       get_likes(rows, a), get_dislikes(rows, a))
            /\ UNCHANGED <<rows, nextId, favorites, bookmarks, ratings, nextPk, procs>>

CanNotPublishNever(article, user) == FALSE

CanNotPublish(article, user) == article.author_id # user

PublishCreate(user, slug) ==
    IF user = AnonymousUser
    THEN Reject("publish", user, slug, HTTP_401_UNAUTHORIZED)
    ELSE IF ArticleBySlug(slug) = {}
    THEN Reject("publish", user, slug, HTTP_404_NOT_FOUND)
    ELSE LET a == CHOOSE x \in ArticleBySlug(slug) : TRUE
         IN IF CanNotPublish(articles[a], user)
            THEN Reject("publish", user, slug, HTTP_400_BAD_REQUEST)
            ELSE /\ articles' = [articles EXCEPT ![a].is_published = TRUE]
                 /\ Respond("publish", user, slug, HTTP_201_CREATED,
                            get_likes(rows, a), get_dislikes(rows, a))
                 /\ UNCHANGED <<rows, nextId, favorites, bookmarks, ratings, nextPk, procs>>

(***************************************************************************)
(* BookmarkView.create and UnBookmarkView.destroy                          *)
(***************************************************************************)
\* Bookmark.objects.filter(slug_id=..., user_id=...)
BookmarksOf(bs, user, slug) == {b \in bs : b.user = user /\ b.slug = slug}

AlreadyBookmarkedNever(bs, user, slug) == FALSE

\* instance = Bookmark.objects.filter(...).first(); if instance
AlreadyBookmarked(bs, user, slug) == BookmarksOf(bs, user, slug) # {}

BookmarkCreate(user, slug) ==
    IF user = AnonymousUser
    THEN Reject("bookmark", user, slug, HTTP_401_UNAUTHORIZED)
    ELSE IF ArticleBySlug(slug) = {}
    THEN Reject("bookmark", user, slug, HTTP_404_NOT_FOUND)
    ELSE IF AlreadyBookmarked(bookmarks, user, slug)
    THEN Reject("bookmark", user, slug, HTTP_400_BAD_REQUEST)
    ELSE /\ nextPk.bookmark <= MaxId
         /\ bookmarks' = bookmarks \cup
                           {[id |-> nextPk.bookmark, user |-> user, slug |-> slug]}
         /\ nextPk' = [nextPk EXCEPT !.bookmark = @ + 1]
         /\ Respond("bookmark", user, slug, HTTP_201_CREATED, 0, 0)
         /\ UNCHANGED <<rows, nextId, articles, favorites, ratings, procs>>

\* perform_destroy deletes the filtered queryset
UnBookmarkDestroy(user, slug) ==
    IF user = AnonymousUser
    THEN Reject("unbookmark", user, slug, HTTP_401_UNAUTHORIZED)
    ELSE LET instance == BookmarksOf(bookmarks, user, slug)
         IN IF instance = {}
            THEN Reject("unbookmark", user, slug, HTTP_404_NOT_FOUND)
            ELSE /\ bookmarks' = bookmarks \ instance
                 /\ Respond("unbookmark", user, slug, HTTP_204_NO_CONTENT, 0, 0)
                 /\ UNCHANGED <<rows, nextId, articles, favorites, ratings, nextPk, procs>>

(***************************************************************************)
(* RatingsView.post                                                        *)
(***************************************************************************)
\* the scores sent: the two ends of the accepted range and the values next
\* to them
Scores == {0 - 1, 0, MaxScore, MaxScore + 1}

ScoreOutOfRangeNever(score) == FALSE

\* if score > 5 or score < 0
ScoreOutOfRange(score) == score > MaxScore \/ score < 0

\* Rating.objects.get(author=author, article__slug=article.slug)
RatingsOf(rs, author, a) == {r \in rs : r.author = author /\ r.article = a}

RatingCreateAlwaysInsert(rs, author, a, score, id) ==
    rs \cup {[id |-> id, author |-> author, article |-> a, score |-> score]}

\* RatingSerializer.create: the row found gets the new score, a row is
\* created when none is found
RatingCreate(rs, author, a, score, id) ==
    IF RatingsOf(rs, author, a) = {}
    THEN rs \cup {[id |-> id, author |-> author, article |-> a, score |-> score]}
    ELSE LET rating == CHOOSE r \in RatingsOf(rs, author, a) : TRUE
         IN (rs \ {rating}) \cup {[rating EXCEPT !.score = score]}

RespondRating(user, slug, score, status) ==
    /\ request' = [path |-> "rate", user |-> user, slug |-> slug, score |-> score]
    /\ response' = [status |-> status, likes |-> 0, dislikes |-> 0]
    /\ before' = rows

RejectRating(user, slug, score, status) ==
    /\ RespondRating(user, slug, score, status)
    /\ UNCHANGED <<rows, nextId, others, procs>>

\* a ValidationError raised by update_data is answered with 400
RatingsPost(user, slug, score) ==
    IF user = AnonymousUser
    THEN RejectRating(user, slug, score, HTTP_401_UNAUTHORIZED)
    ELSE IF ArticleBySlug(slug) = {}
    THEN RejectRating(user, slug, score, HTTP_400_BAD_REQUEST)
    ELSE LET a == CHOOSE x \in ArticleBySlug(slug) : TRUE
         IN IF articles[a].author_id = user \/ ScoreOutOfRange(score)
            THEN RejectRating(user, slug, score, HTTP_400_BAD_REQUEST)
            ELSE /\ RatingsOf(ratings, user, a) = {} => nextPk.rating <= MaxId
                 /\ ratings' = RatingCreate(ratings, user, a, score, nextPk.rating)
                 /\ nextPk' = [nextPk EXCEPT !.rating =
                                 IF RatingsOf(ratings, user, a) = {} THEN @ + 1 ELSE @]
                 /\ RespondRating(user, slug, score, HTTP_200_OK)
                 /\ UNCHANGED <<rows, nextId, articles, favorites, bookmarks, procs>>

(***************************************************************************)
(* Specifications                                                          *)
(***************************************************************************)
IdleProc == [pc |-> "idle", user |-> AnonymousUser, slug |-> NoSuchSlug, path |-> "none",
             obj |-> 0, likedislike |-> 0, status |-> 0, likes |-> 0, dislikes |-> 0]

NewArticle(a) == [slug |-> SlugOf(a), author_id |-> AuthorOf(a),
                  favorites_count |-> 0, favorited |-> FALSE, is_published |-> FALSE]

InitLedger ==
    /\ rows = {}
    /\ nextId = 1
    /\ request = NoRequest
    /\ response = NoResponse
    /\ before = {}
    /\ procs = [p \in Procs |-> IdleProc]

Init ==
    /\ InitLedger
    /\ articles = [a \in ArticleIds |-> NewArticle(a)]
    /\ favorites = {}
    /\ bookmarks = {}
    /\ ratings = {}
    /\ nextPk = [bookmark |-> 1, rating |-> 1]

Next ==
    \E user \in Users \cup {AnonymousUser}, slug \in Slugs, path \in ChoicePaths :
        ChoicePost(user, slug, path)

\* the like/dislike endpoints, requests handled one at a time
Spec == Init /\ [][Next]_vars

NextFavorite ==
    \/ \E user \in Readers \cup {AnonymousUser}, slug \in Slugs : FavoriteCreate(user, slug)
    \/ \E user \in Readers \cup {AnonymousUser}, slug \in Slugs : UnFavoriteDestroy(user, slug)

\* the favorite/unfavorite endpoints, requests handled one at a time
SpecFavorite == Init /\ [][NextFavorite]_vars

\* a site in use: every user has favorited and rated each article of another
\* author and bookmarked every article
FanArticles(fan) == {a \in ArticleIds : AuthorOf(a) # fan}

InitFrame ==
    /\ InitLedger
    /\ favorites = {<<fan, a>> : fan \in Users, a \in ArticleIds} \
                   {<<AuthorOf(a), a>> : a \in ArticleIds}
    /\ articles = [a \in ArticleIds |->
                     [NewArticle(a) EXCEPT
                        !.favorites_count = Cardinality({fan \in Users : a \in FanArticles(fan)}),
                        !.favorited = ({fan \in Users : a \in FanArticles(fan)} # {})]]
    /\ bookmarks = {[id |-> (fan - 1) * NumArticles + a, user |-> fan, slug |-> SlugOf(a)] :
                       fan \in Users, a \in ArticleIds}
    /\ ratings = UNION {{[id |-> (fan - 1) * NumArticles + a, author |-> fan,
                           article |-> a, score |-> MaxScore] :
                           a \in FanArticles(fan)} : fan \in Users}
    /\ nextPk = [bookmark |-> NumUsers * NumArticles + 1,
                 rating |-> NumUsers * NumArticles + 1]

NextFrame ==
    \E user \in Users, slug \in Slugs \ {NoSuchSlug}, path \in ChoicePaths :
        ChoicePost(user, slug, path)

\* the like/dislike endpoints, used by signed-in users on existing articles of
\* a site that already holds favorites, bookmarks and ratings
SpecFrame == InitFrame /\ [][NextFrame]_vars

\* the requests address one article, or a slug that matches none
ContendedSlugs == {SlugOf(1), NoSuchSlug}

NextArticle ==
    \/ \E user \in Users \cup {AnonymousUser}, slug \in ContendedSlugs :
         FavoriteCreate(user, slug)
    \/ \E user \in Users \cup {AnonymousUser}, slug \in ContendedSlugs :
         UnFavoriteDestroy(user, slug)
    \/ \E user \in Users \cup {AnonymousUser}, slug \in ContendedSlugs, data \in UpdateData :
         ArticleUpdate(user, slug, data)
    \/ \E user \in Users \cup {AnonymousUser}, slug \in ContendedSlugs :
         PublishCreate(user, slug)

\* the endpoints that save an article: favorite, unfavorite, update and
\* publish, requests handled one at a time
SpecArticle == Init /\ [][NextArticle]_vars

NextBookmark ==
    \/ \E user \in Users \cup {AnonymousUser}, slug \in Slugs : BookmarkCreate(user, slug)
    \/ \E user \in Users \cup {AnonymousUser}, slug \in Slugs : UnBookmarkDestroy(user, slug)

\* the bookmark/unbookmark endpoints, requests handled one at a time
SpecBookmark == Init /\ [][NextBookmark]_vars

NextRating ==
    \E user \in Users \cup {AnonymousUser}, slug \in Slugs, score \in Scores :
        RatingsPost(user, slug, score)

\* the rating endpoint, requests handled one at a time
SpecRating == Init /\ [][NextRating]_vars

(***************************************************************************)
(* ChoiceView.post, statement by statement, for overlapping requests       *)
(***************************************************************************)
Finish(p, status) ==
    procs' = [procs EXCEPT ![p].pc = "done", ![p].status = status]

\* the request reaches the view
Begin(p, user, slug, path) ==
    /\ procs[p].pc = "idle"
    /\ procs' = [procs EXCEPT ![p] = [IdleProc EXCEPT !.pc = "get_obj", !.user = user,
                                                     !.slug = slug, !.path = path]]
    /\ UNCHANGED <<rows, nextId, others, request, response, before>>

\* obj = self.model.objects.get(slug=slug)
GetObj(p) ==
    /\ procs[p].pc = "get_obj"
    /\ IF ArticleBySlug(procs[p].slug) = {}
       THEN Finish(p, HTTP_500_INTERNAL_SERVER_ERROR)
       ELSE procs' = [procs EXCEPT ![p].pc = "lookup",
                        ![p].obj = CHOOSE a \in ArticleBySlug(procs[p].slug) : TRUE]
    /\ UNCHANGED <<rows, nextId, others, request, response, before>>

\* likedislike = LikeDislike.objects.get(...) and the choice of the branch
Lookup(p) ==
    /\ procs[p].pc = "lookup"
    /\ LET found == Matching(rows, procs[p].obj, procs[p].user) IN
       IF found = {}
       THEN procs' = [procs EXCEPT ![p].pc = "create"]
       ELSE IF Cardinality(found) > 1
       THEN Finish(p, HTTP_500_INTERNAL_SERVER_ERROR)
       ELSE LET likedislike == CHOOSE r \in found : TRUE IN
            procs' = [procs EXCEPT
                        ![p].likedislike = likedislike.id,
                        ![p].pc = IF likedislike.vote # UrlVoteType(procs[p].path)
                                  THEN "update" ELSE "delete"]
    /\ UNCHANGED <<rows, nextId, others, request, response, before>>

\* obj.votes.create(user=request.user, vote=self.vote_type)
Create(p) ==
    /\ procs[p].pc = "create"
    /\ nextId <= MaxId
    /\ rows' = rows \cup {NewRow(nextId, procs[p].obj, procs[p].user,
                                 UrlVoteType(procs[p].path))}
    /\ nextId' = nextId + 1
    /\ procs' = [procs EXCEPT ![p].pc = "serialize"]
    /\ UNCHANGED <<others, request, response, before>>

\* likedislike.vote = self.vote_type; likedislike.save(update_fields=['vote'])
Update(p) ==
    /\ procs[p].pc = "update"
    /\ LET stored == {r \in rows : r.id = procs[p].likedislike} IN
       IF stored = {}
       THEN Finish(p, HTTP_500_INTERNAL_SERVER_ERROR) /\ UNCHANGED rows
       ELSE /\ rows' = (rows \ stored) \cup
                       {[r EXCEPT !.vote = UrlVoteType(procs[p].path)] : r \in stored}
            /\ procs' = [procs EXCEPT ![p].pc = "serialize"]
    /\ UNCHANGED <<nextId, others, request, response, before>>

\* likedislike.delete()
Delete(p) ==
    /\ procs[p].pc = "delete"
    /\ rows' = {r \in rows : r.id # procs[p].likedislike}
    /\ procs' = [procs EXCEPT ![p].pc = "serialize"]
    /\ UNCHANGED <<nextId, others, request, response, before>>

\* serializer = ArticleSerializer(obj); return Response(serializer.data, 201)
Serialize(p) ==
    /\ procs[p].pc = "serialize"
    /\ procs' = [procs EXCEPT ![p].pc = "done",
                              ![p].status = HTTP_201_CREATED,
                              ![p].likes = get_likes(rows, procs[p].obj),
                              ![p].dislikes = get_dislikes(rows, procs[p].obj)]
    /\ UNCHANGED <<rows, nextId, others, request, response, before>>

\* the table when the overlapping requests arrive: empty, or holding the one
\* row an earlier submission created
InitConcurrent ==
    /\ \/ rows = {} /\ nextId = 1
       \/ /\ \E a \in ArticleIds, u \in Users, v \in VoteTypes : rows = {NewRow(1, a, u, v)}
          /\ nextId = 2
    /\ request = NoRequest
    /\ response = NoResponse
    /\ before = {}
    /\ procs = [p \in Procs |-> IdleProc]
    /\ articles = [a \in ArticleIds |-> NewArticle(a)]
    /\ favorites = {}
    /\ bookmarks = {}
    /\ ratings = {}
    /\ nextPk = [bookmark |-> 1, rating |-> 1]

NextConcurrent ==
    \/ \E p \in Procs, user \in Users, slug \in Slugs, path \in ChoicePaths :
         Begin(p, user, slug, path)
    \/ \E p \in Procs : GetObj(p)
    \/ \E p \in Procs : Lookup(p)
    \/ \E p \in Procs : Create(p)
    \/ \E p \in Procs : Update(p)
    \/ \E p \in Procs : Delete(p)
    \/ \E p \in Procs : Serialize(p)

\* the like/dislike endpoints with the requests of two workers interleaved
SpecConcurrent == InitConcurrent /\ [][NextConcurrent]_vars

(***************************************************************************)
(* FavoriteArticle.create and UnFavoriteArticle.destroy, statement by      *)
(* statement, for overlapping requests                                     *)
(***************************************************************************)
IdleFavorite == [pc |-> "idle", path |-> "none", user |-> AnonymousUser,
                 slug |-> NoSuchSlug, a |-> 0, article |-> NewArticle(0), status |-> 0]

\* the response leaves the worker; its request-local objects are dropped
FavoriteDone(p, status) ==
    procs' = [procs EXCEPT ![p] = [IdleFavorite EXCEPT !.pc = "done",
                                                       !.path = procs[p].path,
                                                       !.a = procs[p].a,
                                                       !.status = status]]

\* a request of a signed-in user reaches one of the two views while no other
\* request of the same user is in flight
FavoriteBegin(p, user, slug, path) ==
    /\ procs[p].pc \in {"idle", "done"}
    /\ \A q \in Procs \ {p} : procs[q].user # user
    /\ procs' = [procs EXCEPT ![p] = [IdleFavorite EXCEPT !.pc = "get_object", !.path = path,
                                                          !.user = user, !.slug = slug]]
    /\ UNCHANGED <<rows, nextId, others, request, response, before>>

\* article = self.get_object()
FavoriteGetObject(p) ==
    /\ procs[p].pc = "get_object"
    /\ IF ArticleBySlug(procs[p].slug) = {}
       THEN FavoriteDone(p, HTTP_404_NOT_FOUND)
       ELSE LET a == CHOOSE x \in ArticleBySlug(procs[p].slug) : TRUE IN
            procs' = [procs EXCEPT ![p].pc = "check", ![p].a = a, ![p].article = articles[a]]
    /\ UNCHANGED <<rows, nextId, others, request, response, before>>

\* the 400 checks, on the article as read and the favorites as stored
FavoriteCheck(p) ==
    /\ procs[p].pc = "check"
    /\ LET rejected ==
             IF procs[p].path = "favorite"
             THEN CanNotFavorite(procs[p].article, procs[p].a, procs[p].user, favorites)
             ELSE ~has_favorited(favorites, procs[p].user, procs[p].a)
       IN IF rejected
          THEN FavoriteDone(p, HTTP_400_BAD_REQUEST)
          ELSE procs' = [procs EXCEPT ![p].pc = "relate"]
    /\ UNCHANGED <<rows, nextId, others, request, response, before>>

\* profile.favorite(article) or profile.unfavorite(article), then the counter
\* and the flag are set on the article object of this request
FavoriteRelate(p) ==
    /\ procs[p].pc = "relate"
    /\ procs[p].path = "favorite" => procs[p].article.favorites_count < MaxCount
    /\ favorites' = IF procs[p].path = "favorite"
                    THEN favorite(favorites, procs[p].user, procs[p].a)
                    ELSE unfavorite(favorites, procs[p].user, procs[p].a)
    /\ procs' = [procs EXCEPT ![p].pc = "save",
                              ![p].article = IF procs[p].path = "favorite"
                                             THEN CountFavorite(procs[p].article)
                                             ELSE CountUnfavorite(procs[p].article)]
    /\ UNCHANGED <<rows, nextId, articles, bookmarks, ratings, nextPk,
                   request, response, before>>

\* article.save() writes every field of the article object; the response follows
FavoriteSave(p) ==
    /\ procs[p].pc = "save"
    /\ articles' = [articles EXCEPT ![procs[p].a] = procs[p].article]
    /\ FavoriteDone(p, IF procs[p].path = "favorite"
                       THEN HTTP_201_CREATED ELSE HTTP_204_NO_CONTENT)
    /\ UNCHANGED <<rows, nextId, favorites, bookmarks, ratings, nextPk,
                   request, response, before>>

InitFavoriteConcurrent ==
    /\ rows = {}
    /\ nextId = 1
    /\ request = NoRequest
    /\ response = NoResponse
    /\ before = {}
    /\ procs = [p \in Procs |-> IdleFavorite]
    /\ articles = [a \in ArticleIds |-> NewArticle(a)]
    /\ favorites = {}
    /\ bookmarks = {}
    /\ ratings = {}
    /\ nextPk = [bookmark |-> 1, rating |-> 1]

NextFavoriteConcurrent ==
    \/ \E p \in Procs, user \in Readers, slug \in ContendedSlugs,
          path \in {"favorite", "unfavorite"} :
         FavoriteBegin(p, user, slug, path)
    \/ \E p \in Procs : FavoriteGetObject(p)
    \/ \E p \in Procs : FavoriteCheck(p)
    \/ \E p \in Procs : FavoriteRelate(p)
    \/ \E p \in Procs : FavoriteSave(p)

\* the favorite/unfavorite endpoints with the requests of two workers interleaved
SpecFavoriteConcurrent == InitFavoriteConcurrent /\ [][NextFavoriteConcurrent]_vars

(***************************************************************************)
(* Properties of the reaction ledger                                       *)
(***************************************************************************)
Req(path, user, a) == [path |-> path, user |-> user, slug |-> SlugOf(a)]

\* the last request was a like/dislike submission that returned 201
Submitted == request.path \in ChoicePaths /\ response.status = HTTP_201_CREATED

\* the last request was a like/dislike submission of a signed-in user on an
\* existing article
OnTarget == /\ request.path \in ChoicePaths
            /\ request.user \in Users
            /\ request.slug # NoSuchSlug

\* the article a request addresses
Target(req) == CHOOSE a \in ArticleIds : SlugOf(a) = req.slug

\* the rows of value v on article a, counted without the serializer's queries
RowsOf(rs, a, v) == {r \in rs : r.object_id = a /\ r.vote = v}

\* the rows of user u on article a, selected without the view's query
Own(rs, a, u) == {r \in rs : r.object_id = a /\ r.user = u}

\* C1: after any sequence of like and dislike submissions handled one at a
\* time, at most one LikeDislike row exists per (target, user).
AtMostOneReaction ==
    \A a \in ArticleIds, u \in Users : Cardinality(Own(rows, a, u)) <= 1

\* a user who already had a reaction submitted again and still has one
ResubmittedReaction ==
    /\ Submitted
    /\ Own(before, Target(request), request.user) # {}
    /\ Own(rows, Target(request), request.user) # {}

\* C2: submitting the value of the user's existing reaction deletes that
\* reaction; in particular LIKE then LIKE (or DISLIKE then DISLIKE) from no
\* reaction leaves no reaction for (T, U).
ToggleOff ==
    [][OnTarget' =>
         LET u == request'.user
             a == Target(request')
             v == IF request'.path = "like" THEN LIKE ELSE DISLIKE
         IN /\ (\E r \in Own(rows, a, u) : r.vote = v) => Own(rows', a, u) = {}
            /\ (request = request' /\ Submitted /\ Own(before, a, u) = {})
               => Own(rows', a, u) = {}]_vars

\* a reaction has just been removed by resubmitting its value
ToggledOff ==
    /\ Submitted
    /\ \E r \in Own(before, Target(request), request.user) :
         r.vote = (IF request.path = "like" THEN LIKE ELSE DISLIKE)
    /\ Own(rows, Target(request), request.user) = {}

\* C3: submitting the opposite value switches the existing row in place:
\* the same row (same id) carries the new value and no second row appears;
\* in particular LIKE then DISLIKE leaves exactly one row, with value DISLIKE.
SwitchInPlace ==
    [][OnTarget' =>
         LET u == request'.user
             a == Target(request')
             v == IF request'.path = "like" THEN LIKE ELSE DISLIKE
         IN /\ (\E r \in Own(rows, a, u) : r.vote # v)
               => \E r \in Own(rows, a, u) :
                    /\ rows' = (rows \ {r}) \cup {[r EXCEPT !.vote = v]}
                    /\ Own(rows', a, u) = {[r EXCEPT !.vote = v]}
            /\ (/\ request = Req("like", u, a)
                /\ Submitted
                /\ Own(before, a, u) = {}
                /\ request'.path = "dislike")
               => /\ Cardinality(Own(rows', a, u)) = 1
                  /\ \A r \in Own(rows', a, u) : r.vote = DISLIKE]_vars

\* a reaction has just been switched to the opposite value
Switched ==
    /\ Submitted
    /\ \E r \in Own(before, Target(request), request.user) :
         /\ r.vote # (IF request.path = "like" THEN LIKE ELSE DISLIKE)
         /\ [r EXCEPT !.vote = 0 - r.vote] \in rows

\* C4: a submission by a user without a reaction on the target creates
\* exactly one row for (T, U), with LIKE on /like/ and DISLIKE on /dislike/.
CreateOnFirstVote ==
    [][(OnTarget' /\ Own(rows, Target(request'), request'.user) = {})
       => /\ Cardinality(rows' \ rows) = 1
          /\ rows \subseteq rows'
          /\ rows' \ rows = Own(rows', Target(request'), request'.user)
          /\ \A r \in rows' \ rows :
               r.vote = (IF request'.path = "like" THEN LIKE ELSE DISLIKE)]_vars

\* a first DISLIKE has just created a row
CreatedDislike ==
    /\ Submitted
    /\ request.path = "dislike"
    /\ Own(before, Target(request), request.user) = {}
    /\ \E r \in Own(rows, Target(request), request.user) : r.vote = DISLIKE

\* C5: for every target, likes + dislikes equals the number of distinct
\* users holding a reaction on it.
CountsMatchUsers ==
    \A a \in ArticleIds :
        get_likes(rows, a) + get_dislikes(rows, a) =
            Cardinality({u \in Users : Own(rows, a, u) # {}})

\* an article carries a like and a dislike of two users
LikedAndDisliked ==
    \E a \in ArticleIds :
        /\ get_likes(rows, a) >= 1
        /\ get_dislikes(rows, a) >= 1
        /\ Cardinality({u \in Users : Own(rows, a, u) # {}}) = 2

\* C6: the counts a submission returns are the counts of LIKE and DISLIKE
\* rows on the target after its write; from no reactions on A: U1 likes gives
\* 1/0, U1 then dislikes gives 0/1, U1 dislikes again gives 0/0.
ReturnedCounts ==
    [][OnTarget' =>
         LET u == request'.user
             a == Target(request')
         IN /\ response'.status = HTTP_201_CREATED
            /\ response'.likes = Cardinality(RowsOf(rows', a, LIKE))
            /\ response'.dislikes = Cardinality(RowsOf(rows', a, DISLIKE))
            /\ (Votes(rows, a) = {} /\ request'.path = "like")
               => response'.likes = 1 /\ response'.dislikes = 0
            /\ (/\ request = Req("like", u, a)
                /\ Submitted
                /\ Votes(before, a) = {}
                /\ request'.path = "dislike")
               => response'.likes = 0 /\ response'.dislikes = 1
            /\ (/\ request = Req("dislike", u, a)
                /\ Submitted
                /\ Cardinality(Votes(before, a)) = 1
                /\ \A r \in Votes(before, a) : r.user = u /\ r.vote = LIKE
                /\ request'.path = "dislike")
               => response'.likes = 0 /\ response'.dislikes = 0]_vars

\* the scenario's third step has just answered: the only reaction on the
\* target, a DISLIKE, was removed by its owner
ScenarioEnd ==
    /\ Submitted
    /\ request.path = "dislike"
    /\ Cardinality(Votes(before, Target(request))) = 1
    /\ \A r \in Votes(before, Target(request)) :
         r.user = request.user /\ r.vote = DISLIKE
    /\ Votes(rows, Target(request)) = {}
    /\ response.likes = 0 /\ response.dislikes = 0

\* C7: two overlapping submissions of the same value by the same user on the
\* same target never leave two rows for that (target, user).
NoDuplicateFromIdenticalVotes ==
    \A p \in Procs : \A q \in Procs \ {p} :
        (/\ procs[p].pc = "done" /\ procs[q].pc = "done"
         /\ procs[p].status = HTTP_201_CREATED /\ procs[q].status = HTTP_201_CREATED
         /\ procs[p].user = procs[q].user
         /\ procs[p].slug = procs[q].slug
         /\ procs[p].path = procs[q].path)
        => Cardinality(Own(rows, procs[p].obj, procs[p].user)) <= 1

\* C8: a submission on a slug that matches no article ends with NotFound and
\* leaves the LikeDislike table as it was.
MissingTargetIsNotFound ==
    (request.path \in ChoicePaths /\ request.user \in Users /\ request.slug = NoSuchSlug)
    => (response.status = HTTP_404_NOT_FOUND /\ rows = before)

OnlyOwnRowChanges ==
    [][(OnTarget' /\ response'.status = HTTP_201_CREATED) =>
         LET u == request'.user
             a == Target(request')
         IN /\ rows' \ Own(rows', a, u) = rows \ Own(rows, a, u)
            /\ \/ Cardinality(rows' \ rows) = 1 /\ rows \subseteq rows'
               \/ Cardinality(rows \ rows') = 1 /\ rows' \subseteq rows
               \/ /\ Cardinality(rows' \ rows) = 1 /\ Cardinality(rows \ rows') = 1
                  /\ {r.id : r \in rows'} = {r.id : r \in rows}
            /\ articles' = articles
            /\ favorites' = favorites
            /\ bookmarks' = bookmarks
            /\ ratings' = ratings
            /\ nextPk' = nextPk]_vars

\* a user removed a reaction while another user held one on the same article,
\* on a site with favorites, bookmarks and ratings
RemovedAmongOthers ==
    /\ Submitted
    /\ favorites # {} /\ bookmarks # {} /\ ratings # {}
    /\ Own(before, Target(request), request.user) # {}
    /\ Own(rows, Target(request), request.user) = {}
    /\ \E r \in Votes(rows, Target(request)) : r.user # request.user

(***************************************************************************)
(* Properties of the favorite counters                                     *)
(***************************************************************************)
\* the users who hold article a in their favorites
Fans(favs, a) == {f \in favs : f[2] = a}

\* the last request was answered by the favorite or the unfavorite endpoint
\* for a signed-in user on an existing article
OnFavoriteTarget == /\ request.path \in {"favorite", "unfavorite"}
                    /\ request.user # AnonymousUser
                    /\ request.slug # NoSuchSlug

\* C11: after any sequence of favorite and unfavorite requests handled one at
\* a time, favorites_count equals the number of users who hold the article in
\* their favorites.
FavoritesCountMatches ==
    \A a \in ArticleIds :
        articles[a].favorites_count = Cardinality(Fans(favorites, a))

\* an unfavorite has just succeeded on an article that another user still
\* holds in their favorites
UnfavoritedOneOfTwo ==
    /\ request.path = "unfavorite"
    /\ response.status = HTTP_204_NO_CONTENT
    /\ Cardinality(Fans(favorites, Target(request))) >= 1

\* C15: after any sequence of favorite and unfavorite requests handled one at
\* a time, favorited is true exactly when favorites_count is greater than 0.
FavoritedIffCounted ==
    \A a \in ArticleIds :
        articles[a].favorited <=> (articles[a].favorites_count > 0)

\* the last favorite of an article has just been withdrawn
UnfavoritedLast ==
    /\ request.path = "unfavorite"
    /\ response.status = HTTP_204_NO_CONTENT
    /\ Fans(favorites, Target(request)) = {}
    /\ \E a \in ArticleIds : Fans(favorites, a) # {}

\* C16: favoriting one's own or an already favorited article, and unfavoriting
\* an article one has not favorited, return 400 and change neither the
\* favorites nor the counters; so no author holds their own article and no
\* article counts more favorites than it has users holding it.
FavoriteRejections ==
    [][OnFavoriteTarget' =>
         LET u == request'.user
             a == Target(request')
         IN /\ (/\ request'.path = "favorite"
                /\ (articles[a].author_id = u \/ <<u, a>> \in favorites))
               => /\ response'.status = HTTP_400_BAD_REQUEST
                  /\ UNCHANGED <<favorites, articles>>
            /\ (request'.path = "unfavorite" /\ <<u, a>> \notin favorites)
               => /\ response'.status = HTTP_400_BAD_REQUEST
                  /\ UNCHANGED <<favorites, articles>>
            /\ \A f \in favorites' : articles'[f[2]].author_id # f[1]
            /\ \A x \in ArticleIds :
                 articles'[x].favorites_count <= Cardinality(Fans(favorites', x))]_vars

\* an author's request to favorite their own article was answered while
\* another user held it in their favorites
OwnFavoriteAnswered ==
    /\ request.path = "favorite"
    /\ request.slug # NoSuchSlug
    /\ request.user = articles[Target(request)].author_id
    /\ response.status # 0
    /\ Fans(favorites, Target(request)) # {}

\* no favorite or unfavorite request is in flight
FavoritesIdle == \A p \in Procs : procs[p].pc \in {"idle", "done"}

\* C12: when favorite and unfavorite requests of different users overlap,
\* favorites_count still equals the number of users holding the article once
\* all requests have finished.
NoLostFavoriteCount ==
    FavoritesIdle =>
        \A a \in ArticleIds :
            articles[a].favorites_count = Cardinality(Fans(favorites, a))

\* C14: favorites_count is never negative, overlapping unfavorite requests
\* included.
FavoritesCountNonNegative ==
    \A a \in ArticleIds : articles[a].favorites_count >= 0

\* two unfavorite requests on one article overlapped: both succeeded and one
\* decrement overwrote the other
UnfavoritesRaced ==
    /\ \A p \in Procs : /\ procs[p].pc = "done"
                        /\ procs[p].path = "unfavorite"
                        /\ procs[p].status = HTTP_204_NO_CONTENT
    /\ \E a \in ArticleIds :
         /\ \A p \in Procs : procs[p].a = a
         /\ Fans(favorites, a) = {}
         /\ articles[a].favorites_count = 1

(***************************************************************************)
(* Properties of the article update and publish endpoints                  *)
(***************************************************************************)
\* C13: an article update leaves favorites_count equal to the number of
\* users who have favorited the article.
UpdateKeepsFavoritesCount ==
    (/\ request.path = "update"
     /\ response.status = HTTP_200_OK)
    => articles[Target(request)].favorites_count
         = Cardinality(Fans(favorites, Target(request)))

\* the last request was answered by the publish endpoint for a signed-in
\* user on an existing article
OnPublishTarget == /\ request.path = "publish"
                   /\ request.user # AnonymousUser
                   /\ request.slug # NoSuchSlug

\* C19: a publish request sets is_published only for the article's author,
\* a publish request by another user returns 400 and leaves is_published
\* unchanged, and no publish request or article update sets is_published
\* back to false.
PublishOnlyByAuthorAndKept ==
    [][/\ OnPublishTarget' =>
            LET u == request'.user
                a == Target(request')
            IN /\ articles[a].author_id # u
                  => /\ response'.status = HTTP_400_BAD_REQUEST
                     /\ articles'[a].is_published = articles[a].is_published
               /\ articles[a].author_id = u
                  => /\ response'.status = HTTP_201_CREATED
                     /\ articles'[a].is_published
       /\ \A x \in ArticleIds :
            articles[x].is_published => articles'[x].is_published]_vars

\* another user's publish request was refused for an article that its author
\* had published and that an update had written since (only an update makes
\* favorites_count exceed the number of users holding the article)
PublishRefusedAfterUpdate ==
    /\ OnPublishTarget
    /\ response.status = HTTP_400_BAD_REQUEST
    /\ articles[Target(request)].is_published
    /\ articles[Target(request)].favorites_count
         > Cardinality(Fans(favorites, Target(request)))

(***************************************************************************)
(* Properties of the bookmarks                                             *)
(***************************************************************************)
\* the last request was answered by the bookmark or the unbookmark endpoint
\* for a signed-in user
OnBookmarkEndpoint == /\ request.path \in {"bookmark", "unbookmark"}
                      /\ request.user # AnonymousUser

\* C17: bookmark and unbookmark requests handled one at a time leave at most
\* one Bookmark per (user, article); bookmarking again returns 400 and
\* creates nothing; unbookmarking removes the requester's bookmark of that
\* article and no other; unbookmarking what is not bookmarked returns 404
\* and changes nothing.
AtMostOneBookmark ==
    [][/\ \A u \in Users : \A a \in ArticleIds :
            Cardinality(BookmarksOf(bookmarks', u, SlugOf(a))) <= 1
       /\ OnBookmarkEndpoint' =>
            LET u == request'.user
                own == BookmarksOf(bookmarks, u, request'.slug)
            IN /\ (request'.path = "bookmark" /\ own # {})
                  => /\ response'.status = HTTP_400_BAD_REQUEST
                     /\ bookmarks' = bookmarks
               /\ (request'.path = "unbookmark" /\ own # {})
                  => /\ response'.status = HTTP_204_NO_CONTENT
                     /\ bookmarks' = bookmarks \ own
               /\ (request'.path = "unbookmark" /\ own = {})
                  => /\ response'.status = HTTP_404_NOT_FOUND
                     /\ bookmarks' = bookmarks]_vars

\* a user has just removed their bookmark of an article that another user
\* still has bookmarked
UnbookmarkedAmongOthers ==
    /\ request.path = "unbookmark"
    /\ response.status = HTTP_204_NO_CONTENT
    /\ BookmarksOf(bookmarks, request.user, request.slug) = {}
    /\ \E b \in bookmarks : b.slug = request.slug /\ b.user # request.user

(***************************************************************************)
(* Properties of the ratings                                               *)
(***************************************************************************)
\* the last request was answered by the rating endpoint for a signed-in user
OnRatingEndpoint == request.path = "rate" /\ request.user # AnonymousUser

\* C18: rating requests handled one at a time leave at most one Rating per
\* (user, article): the first rating creates the row and a later one
\* overwrites its score; a request for a missing article, by the article's
\* author or with a score below 0 or above 5 is rejected and writes nothing;
\* so every stored score lies in [0, 5] and no author has rated their own
\* article.
AtMostOneRating ==
    [][/\ \A u \in Users : \A a \in ArticleIds :
            Cardinality(RatingsOf(ratings', u, a)) <= 1
       /\ \A r \in ratings' : /\ r.score >= 0
                              /\ r.score <= MaxScore
                              /\ articles'[r.article].author_id # r.author
       /\ OnRatingEndpoint' =>
            LET u == request'.user
                score == request'.score
            IN IF \/ request'.slug = NoSuchSlug
                  \/ articles[Target(request')].author_id = u
                  \/ score < 0
                  \/ score > MaxScore
               THEN /\ response'.status = HTTP_400_BAD_REQUEST
                    /\ ratings' = ratings
               ELSE LET a == Target(request')
                        own == RatingsOf(ratings, u, a)
                    IN /\ response'.status = HTTP_200_OK
                       /\ own = {} =>
                            \E r \in ratings' \ ratings :
                               /\ r.author = u /\ r.article = a /\ r.score = score
                               /\ ratings' = ratings \cup {r}
                       /\ own # {} =>
                            ratings' = (ratings \ own) \cup
                                         {[r EXCEPT !.score = score] : r \in own}]_vars

\* a user has just rated an article again: the row that holds the score sent
\* is older than the newest row of the table
RatedAgain ==
    /\ request.path = "rate"
    /\ response.status = HTTP_200_OK
    /\ \E r \in ratings : /\ r.author = request.user
                          /\ r.article = Target(request)
                          /\ r.score = request.score
                          /\ r.id < nextPk.rating - 1

====
